---- MODULE Spec2Model ----
(***************************************************************************)
(* Model of the sn36 web agent core: the action normaliser (actions.py),   *)
(* the candidate extractor (html_parser.py) and the decision parser        *)
(* (llm_client.py).  Python strings are TLA+ strings; Python values of a   *)
(* decision mapping are tagged records (see the Value section).            *)
(***************************************************************************)
EXTENDS Integers, Sequences, FiniteSets, TLC

VARIABLES
    pc,          \* position of the modelled call: "emit" | "done" | ...
    decision,    \* the decision mapping handed to build_action_from_llm
    candidates,  \* the candidate list handed to build_action_from_llm
    normalized,  \* local `normalized` of build_action_from_llm
    intent,      \* local `action` of build_action_from_llm ("None" if unset)
    selector,    \* local `selector` of build_action_from_llm
    result,      \* value returned by build_action_from_llm
    raised,      \* exception escaping build_action_from_llm ("" if none)
    html,        \* the snapshot handed to parse_html, as its element sequence
    harvest,     \* local `candidates` of parse_html after the three passes
    parsed,      \* the list returned by parse_html
    content,     \* the reasoning service's text handed to _extract_json
    embedded,    \* the JSON object the text was written around (None if none)
    extracted,   \* the value returned by _extract_json
    response_format, \* argument response_format of chat_completion
    body,        \* keys of the request body chat_completion has built
    phase,       \* which call of _do_request is running: 1, or 2 after the 400 handler
    attempt,     \* attempt number of the retry decorator inside that call
    sent,        \* the requests posted so far, each with the response it got
    completion,  \* the mapping returned by chat_completion (None if none)
    error,       \* exception chat_completion raised to its caller ("" if none)
    history,     \* payload["history"] of the /act call
    excepted,    \* exception caught by the except clause of act ("" if none)
    actions      \* the "actions" list of the mapping act returns (<<>> before)

normVars == <<decision, candidates, normalized, intent, selector, result, raised>>

htmlVars == <<html, harvest, parsed>>

jsonVars == <<content, embedded, extracted>>

llmVars == <<response_format, body, phase, attempt, sent, completion, error>>

actVars == <<history, excepted, actions>>

vars == <<pc, normVars, htmlVars, jsonVars, llmVars, actVars>>

-----------------------------------------------------------------------------
(* Python str methods                                                      *)

Char(s, i) == SubSeq(s, i, i)

Drop(s, k) == SubSeq(s, k + 1, Len(s))

Take(s, k) == SubSeq(s, 1, IF k < Len(s) THEN k ELSE Len(s))

UpperLetters == "ABCDEFGHIJKLMNOPQRSTUVWXYZ"

LowerLetters == "abcdefghijklmnopqrstuvwxyz"

Digits == "0123456789"

IsSpace(c) == c \in {" ", "\n", "\t"}

IsDigit(c) == \E i \in 1..10 : Char(Digits, i) = c

DigitVal(c) == (CHOOSE i \in 1..10 : Char(Digits, i) = c) - 1

LowerChar(c) ==
    IF \E i \in 1..26 : Char(UpperLetters, i) = c
    THEN Char(LowerLetters, CHOOSE i \in 1..26 : Char(UpperLetters, i) = c)
    ELSE c

RECURSIVE Lower(_)
Lower(s) == IF s = "" THEN "" ELSE LowerChar(Char(s, 1)) \o Lower(Drop(s, 1))

RECURSIVE LStrip(_)
LStrip(s) == IF s # "" /\ IsSpace(Char(s, 1)) THEN LStrip(Drop(s, 1)) ELSE s

RECURSIVE RStrip(_)
RStrip(s) ==
    IF s # "" /\ IsSpace(Char(s, Len(s))) THEN RStrip(Take(s, Len(s) - 1)) ELSE s

Strip(s) == RStrip(LStrip(s))

StartsWith(s, p) == Len(p) <= Len(s) /\ Take(s, Len(p)) = p

EndsWith(s, p) == Len(p) <= Len(s) /\ Drop(s, Len(s) - Len(p)) = p

\* Python `sub in s`
Contains(s, sub) ==
    \E i \in 0..(Len(s) - Len(sub)) : SubSeq(s, i + 1, i + Len(sub)) = sub

RECURSIVE NatToStr(_)
NatToStr(n) ==
    IF n < 10 THEN Char(Digits, n + 1)
    ELSE NatToStr(n \div 10) \o Char(Digits, (n % 10) + 1)

IntToStr(n) == IF n < 0 THEN "-" \o NatToStr(0 - n) ELSE NatToStr(n)

AllDigits(s) == s # "" /\ \A i \in 1..Len(s) : IsDigit(Char(s, i))

RECURSIVE DigitsToNat(_)
DigitsToNat(s) ==
    IF s = "" THEN 0
    ELSE 10 * DigitsToNat(Take(s, Len(s) - 1)) + DigitVal(Char(s, Len(s)))

-----------------------------------------------------------------------------
(* Python values found in a decision mapping.  n of a float is the value   *)
(* in tenths; s of a float is "" for a finite value, else "nan" or "inf".  *)
(* A list or mapping carries its repr in s and its length in n.  A bigint  *)
(* is an int above the range of float.                                     *)

StrVal(s) == [t |-> "str", s |-> s, n |-> 0]

IntVal(n) == [t |-> "int", s |-> "", n |-> n]

BigIntVal == [t |-> "bigint", s |-> "", n |-> 0]

BoolVal(b) == [t |-> "bool", s |-> "", n |-> IF b THEN 1 ELSE 0]

FloatVal(tenths) == [t |-> "float", s |-> "", n |-> tenths]

NaNVal == [t |-> "float", s |-> "nan", n |-> 0]

NullVal == [t |-> "null", s |-> "", n |-> 0]

ListVal(repr, len) == [t |-> "list", s |-> repr, n |-> len]

DictVal(repr, len) == [t |-> "dict", s |-> repr, n |-> len]

\* Python None as a returned action or an unbound selector
None == [type |-> "None"]

\* the variables of a part of the program that is not running
IdleNorm ==
    /\ decision = <<>>
    /\ candidates = <<>>
    /\ normalized = ""
    /\ intent = "None"
    /\ selector = None
    /\ result = None
    /\ raised = ""

IdleHtml == html = <<>> /\ harvest = <<>> /\ parsed = <<>>

IdleJson == content = "" /\ embedded = None /\ extracted = None

IdleLlm ==
    /\ response_format = NullVal
    /\ body = {}
    /\ phase = 0
    /\ attempt = 0
    /\ sent = <<>>
    /\ completion = None
    /\ error = ""

IdleAct == history = <<>> /\ excepted = "" /\ actions = <<>>

IsStr(v) == v.t = "str"

\* isinstance(v, int): bool is a subclass of int
IsInstanceInt(v) == v.t \in {"int", "bigint", "bool"}

IsDict(v) == v.t = "dict"

\* Python truthiness
Truthy(v) ==
    CASE v.t = "str" -> v.s # ""
      [] v.t \in {"int", "bool"} -> v.n # 0
      [] v.t = "bigint" -> TRUE
      [] v.t = "float" -> v.s # "" \/ v.n # 0
      [] v.t = "null" -> FALSE
      [] v.t \in {"list", "dict"} -> v.n # 0

\* str(v)
PyStr(v) ==
    CASE v.t = "str" -> v.s
      [] v.t = "int" -> IntToStr(v.n)
      [] v.t = "bigint" -> "1" \o "0000000000"
      [] v.t = "bool" -> IF v.n = 1 THEN "True" ELSE "False"
      [] v.t = "float" ->
            IF v.s # "" THEN v.s
            ELSE (IF v.n < 0 THEN "-" ELSE "")
                 \o NatToStr((IF v.n < 0 THEN 0 - v.n ELSE v.n) \div 10) \o "."
                 \o NatToStr((IF v.n < 0 THEN 0 - v.n ELSE v.n) % 10)
      [] v.t = "null" -> "None"
      [] v.t \in {"list", "dict"} -> v.s

\* int(s) for a str: surrounding whitespace and one sign are accepted, then
\* decimal digits; anything else is a ValueError, reported as ok = FALSE
IntOfStr(s) ==
    LET b == Strip(s)
        neg == b # "" /\ Char(b, 1) = "-"
        signed == b # "" /\ Char(b, 1) \in {"-", "+"}
        d == IF signed THEN Drop(b, 1) ELSE b
    IN  IF AllDigits(d)
        THEN [ok |-> TRUE, v |-> IntVal(IF neg THEN 0 - DigitsToNat(d) ELSE DigitsToNat(d))]
        ELSE [ok |-> FALSE, v |-> NullVal]

\* float(s) for a str: [sign] digits [. digit] | [sign] nan | [sign] inf
FloatOfStr(s) ==
    LET b == Lower(Strip(s))
        neg == b # "" /\ Char(b, 1) = "-"
        signed == b # "" /\ Char(b, 1) \in {"-", "+"}
        d == IF signed THEN Drop(b, 1) ELSE b
        sgn == IF neg THEN 0 - 1 ELSE 1
        dot == IF \E i \in 1..Len(d) : Char(d, i) = "."
               THEN CHOOSE i \in 1..Len(d) : Char(d, i) = "." /\ \A j \in 1..(i - 1) : Char(d, j) # "."
               ELSE 0
    IN  IF d = "nan" THEN [ok |-> TRUE, v |-> NaNVal]
        ELSE IF d \in {"inf", "infinity"}
        THEN [ok |-> TRUE, v |-> [t |-> "float", s |-> IF neg THEN "-inf" ELSE "inf", n |-> 0]]
        ELSE IF AllDigits(d) THEN [ok |-> TRUE, v |-> FloatVal(sgn * 10 * DigitsToNat(d))]
        ELSE IF dot > 0 /\ AllDigits(Take(d, dot - 1)) /\ Len(d) = dot + 1 /\ IsDigit(Char(d, dot + 1))
        THEN [ok |-> TRUE,
              v |-> FloatVal(sgn * (10 * DigitsToNat(Take(d, dot - 1)) + DigitVal(Char(d, dot + 1))))]
        ELSE [ok |-> FALSE, v |-> NullVal]

\* float(v) for a str, from the outcome of the conversion
FloatOfParsed(r) ==
    IF r.ok THEN [exc |-> "", v |-> r.v] ELSE [exc |-> "ValueError", v |-> NullVal]

\* float(v): exc is "" on success, else the exception class raised
FloatOf(v) ==
    CASE v.t = "float" -> [exc |-> "", v |-> v]
      [] v.t \in {"int", "bool"} -> [exc |-> "", v |-> FloatVal(10 * v.n)]
      [] v.t = "bigint" -> [exc |-> "OverflowError", v |-> NullVal]
      [] v.t = "str" -> FloatOfParsed(FloatOfStr(v.s))
      [] OTHER -> [exc |-> "TypeError", v |-> NullVal]

NoAttrs == <<>>

\* the mappings that lack key a or map it to one of vals
Opt(a, vals) == {NoAttrs} \cup {a :> v : v \in vals}

\* d.get(k, default)
Get(d, k, default) == IF k \in DOMAIN d THEN d[k] ELSE default

-----------------------------------------------------------------------------
(* actions.py                                                              *)

make_selector(selector_type, attribute, value, case_sensitive) ==
    [type |-> selector_type, attribute |-> attribute, value |-> value,
     case_sensitive |-> case_sensitive]

click_action(sel) == [type |-> "ClickAction", selector |-> sel]

type_action(sel, text) == [type |-> "TypeAction", selector |-> sel, text |-> text]

select_option_action(sel, text) ==
    [type |-> "SelectDropDownOptionAction", selector |-> sel, text |-> text]

navigate_action(url) == [type |-> "NavigateAction", url |-> url]

scroll_action(down) ==
    [type |-> "ScrollAction", down |-> down, up |-> ~down, left |-> FALSE, right |-> FALSE]

wait_action(seconds) == [type |-> "WaitAction", time_seconds |-> seconds]

idle_action == [type |-> "IdleAction"]

submit_action(sel) == [type |-> "SubmitAction", selector |-> sel]

hover_action(sel) == [type |-> "HoverAction", selector |-> sel]

_normalize_action_name(raw) ==
    LET name == Strip(Lower(raw))
    IN  Strip(IF EndsWith(name, "action") THEN Take(name, Len(name) - 6) ELSE name)

\* the alias table in insertion order: <<alias, canonical>>
_ACTION_ALIASES ==
    << <<"click", "click">>, <<"type", "type">>, <<"input", "type">>,
       <<"fill", "type">>, <<"select", "select">>, <<"selectdropdown", "select">>,
       <<"selectdropdownoption", "select">>, <<"dropdown", "select">>,
       <<"navigate", "navigate">>, <<"goto", "navigate">>, <<"go", "navigate">>,
       <<"scroll", "scroll">>, <<"scrolldown", "scroll_down">>,
       <<"scrollup", "scroll_up">>, <<"wait", "wait">>, <<"sleep", "wait">>,
       <<"pause", "wait">>, <<"done", "idle">>, <<"complete", "idle">>,
       <<"finish", "idle">>, <<"idle", "idle">>, <<"submit", "submit">>,
       <<"hover", "hover">> >>

\* _ACTION_ALIASES.get(name), "None" when name is not a key
AliasGet(name) ==
    IF \E i \in 1..Len(_ACTION_ALIASES) : _ACTION_ALIASES[i][1] = name
    THEN _ACTION_ALIASES[CHOOSE i \in 1..Len(_ACTION_ALIASES) : _ACTION_ALIASES[i][1] = name][2]
    ELSE "None"

\* the loop testing only `alias in normalized`
RECURSIVE PartialMatchOneWay(_, _)
PartialMatchOneWay(name, i) ==
    IF i > Len(_ACTION_ALIASES) THEN "None"
    ELSE IF Contains(name, _ACTION_ALIASES[i][1])
         THEN _ACTION_ALIASES[i][2]
         ELSE PartialMatchOneWay(name, i + 1)

\* the for loop over _ACTION_ALIASES.items() with its break, from entry i on
RECURSIVE PartialMatch(_, _)
PartialMatch(name, i) ==
    IF i > Len(_ACTION_ALIASES) THEN "None"
    ELSE IF Contains(name, _ACTION_ALIASES[i][1]) \/ Contains(_ACTION_ALIASES[i][1], name)
         THEN _ACTION_ALIASES[i][2]
         ELSE PartialMatch(name, i + 1)

\* the lookup without the substring loop
ResolveAliasExactOnly(name) == AliasGet(name)

ResolveAlias(name) ==
    IF AliasGet(name) # "None" THEN AliasGet(name) ELSE PartialMatch(name, 1)

\* raw_action = decision.get("action", decision.get("type", ""))
RawAction(d) == Get(d, "action", Get(d, "type", StrVal("")))

\* a failed conversion falls back to the first candidate
CandidateIdDefaultsToFirst(d) ==
    LET cid == Get(d, "candidate_id", NullVal)
    IN  IF IsStr(cid)
        THEN (IF IntOfStr(cid.s).ok THEN IntOfStr(cid.s).v ELSE IntVal(0))
        ELSE cid

\* candidate_id after the str -> int conversion (None on ValueError)
CandidateId(d) ==
    LET cid == Get(d, "candidate_id", NullVal)
    IN  IF IsStr(cid)
        THEN (IF IntOfStr(cid.s).ok THEN IntOfStr(cid.s).v ELSE NullVal)
        ELSE cid

\* candidate_id is not None and isinstance(candidate_id, int)
\*   and 0 <= candidate_id < len(candidates)
CandidateBound(cid, cands) ==
    /\ cid.t # "null"
    /\ IsInstanceInt(cid)
    /\ cid.t # "bigint"
    /\ 0 <= cid.n
    /\ cid.n < Len(cands)

ResolveSelector(d, cands) ==
    IF CandidateBound(CandidateId(d), cands)
    THEN cands[CandidateId(d).n + 1].selector
    ELSE None

\* decision.get("text", decision.get("value", ""))
TypeText(d) == Get(d, "text", Get(d, "value", StrVal("")))

\* decision.get("text", decision.get("option", decision.get("value", "")))
SelectText(d) == Get(d, "text", Get(d, "option", Get(d, "value", StrVal(""))))

\* decision.get("seconds", decision.get("time", decision.get("time_seconds", 1.0)))
WaitSeconds(d) == Get(d, "seconds", Get(d, "time", Get(d, "time_seconds", FloatVal(10))))

Returns(a) == [result |-> a, raised |-> ""]

Raises(e) == [result |-> None, raised |-> e]

\* the wait branch from f, the outcome of float(seconds)
WaitOutcome(f) ==
    IF f.exc = "" THEN Returns(wait_action(f.v))
    ELSE IF f.exc \in {"ValueError", "TypeError"}
         THEN Returns(wait_action(FloatVal(10)))
         ELSE Raises(f.exc)

\* the if/elif chain of build_action_from_llm once the intent is known
Construct(action, sel, d) ==
    CASE action = "click" ->
            IF sel # None THEN Returns(click_action(sel))
            ELSE IF "selector" \in DOMAIN d /\ IsDict(d["selector"])
                 THEN Returns(click_action(d["selector"]))
                 ELSE Returns(None)
      [] action = "type" ->
            IF sel # None THEN Returns(type_action(sel, PyStr(TypeText(d))))
            ELSE Returns(None)
      [] action = "select" ->
            IF sel # None /\ Truthy(SelectText(d))
            THEN Returns(select_option_action(sel, PyStr(SelectText(d))))
            ELSE Returns(None)
      [] action = "navigate" ->
            IF Truthy(Get(d, "url", StrVal("")))
            THEN Returns(navigate_action(Get(d, "url", StrVal(""))))
            ELSE Returns(None)
      [] action \in {"scroll", "scroll_down", "scroll_up"} ->
            LET direction == Get(d, "direction", StrVal("down"))
            IN  IF ~IsStr(direction) THEN Raises("AttributeError")
                ELSE IF action = "scroll_up" \/ Lower(direction.s) = "up"
                     THEN Returns(scroll_action(FALSE))
                     ELSE Returns(scroll_action(TRUE))
      [] action = "wait" -> WaitOutcome(FloatOf(WaitSeconds(d)))
      [] action = "idle" -> Returns(idle_action)
      [] action = "submit" ->
            IF sel # None THEN Returns(submit_action(sel)) ELSE Returns(None)
      [] action = "hover" ->
            IF sel # None THEN Returns(hover_action(sel)) ELSE Returns(None)
      [] OTHER -> Returns(None)

\* build_action_from_llm(decision, candidates): the locals and the outcome
BuildOutcome(d, cands) ==
    IF ~Truthy(RawAction(d))
    THEN [normalized |-> "", intent |-> "None", selector |-> None,
          result |-> None, raised |-> ""]
    ELSE LET name == _normalize_action_name(PyStr(RawAction(d)))
             action == ResolveAlias(name)
         IN  IF action = "None"
             THEN [normalized |-> name, intent |-> "None", selector |-> None,
                   result |-> None, raised |-> ""]
             ELSE LET sel == ResolveSelector(d, cands)
                  IN  [normalized |-> name, intent |-> action, selector |-> sel]
                          @@ Construct(action, sel, d)

-----------------------------------------------------------------------------
(* html_parser.py.  The parsed document is the sequence of its elements in *)
(* document order.  An element is a record                                 *)
(*   name      tag name                                                    *)
(*   attrs     function from the names of the attributes present to values *)
(*   strings   the element's text nodes, raw, in document order            *)
(*   ancestors the enclosing elements, nearest first, each a record        *)
(*             [name, role, text] with text its get_text(strip=True)       *)
(*   options   the get_text(strip=True) of each option inside a select     *)

_INTERACTIVE_TAGS == {"a", "button", "input", "textarea", "select", "option"}

_CLICKABLE_ROLES == {"button", "link", "tab", "menuitem", "checkbox", "radio", "switch"}

MAX_CANDIDATES == 40

StrippedTags == {"script", "style", "noscript", "svg", "path"}

\* element.get(attr), "" standing for None or a missing attribute where the
\* caller only tests truthiness
Attr(el, a) == IF a \in DOMAIN el.attrs THEN el.attrs[a] ELSE ""

Has(el, a) == a \in DOMAIN el.attrs

\* get_text(separator=sep, strip=True): the stripped non-empty text nodes
\* joined by sep
RECURSIVE JoinStripped(_, _)
JoinStripped(strings, sep) ==
    IF strings = <<>> THEN ""
    ELSE LET h == Strip(Head(strings))
             r == JoinStripped(Tail(strings), sep)
         IN  IF h = "" THEN r
             ELSE IF r = "" THEN h
             ELSE h \o sep \o r

_get_visible_text(el) ==
    LET own == JoinStripped(el.strings, " ")
        text == IF own # "" THEN own
                ELSE IF Attr(el, "aria-label") # "" THEN Attr(el, "aria-label")
                ELSE Attr(el, "title")
    IN  Strip(Take(text, 120))

_build_selector(el) ==
    IF Attr(el, "id") # "" /\ Strip(Attr(el, "id")) # ""
    THEN make_selector("attributeValueSelector", "id", Strip(Attr(el, "id")), FALSE)
    ELSE IF Attr(el, "data-testid") # ""
    THEN make_selector("attributeValueSelector", "data-testid",
                       Strip(Attr(el, "data-testid")), FALSE)
    ELSE IF Attr(el, "name") # "" /\ Strip(Attr(el, "name")) # ""
    THEN make_selector("attributeValueSelector", "name", Strip(Attr(el, "name")), FALSE)
    ELSE IF el.name = "a" /\ Attr(el, "href") # ""
            /\ ~StartsWith(Attr(el, "href"), "javascript:")
    THEN make_selector("attributeValueSelector", "href", Strip(Attr(el, "href")), FALSE)
    ELSE IF _get_visible_text(el) # ""
    THEN make_selector("tagContainsSelector", "text", Take(_get_visible_text(el), 80), FALSE)
    ELSE None

RECURSIVE _get_parent_context(_)
_get_parent_context(ancestors) ==
    IF ancestors = <<>> THEN ""
    ELSE IF Head(ancestors).name \in {"form", "nav", "header", "footer", "main", "aside"}
         THEN Head(ancestors).name
    ELSE IF Head(ancestors).role \in {"navigation", "banner", "main", "form"}
         THEN Head(ancestors).role
    ELSE _get_parent_context(Tail(ancestors))

\* root.find("label", attrs={"for": elem_id}), then element.find_parent("label")
_get_associated_label(el, doc) ==
    LET elem_id == Attr(el, "id")
        labels == {i \in 1..Len(doc) :
                      doc[i].name = "label" /\ Has(doc[i], "for") /\ doc[i].attrs["for"] = elem_id}
        parents == {i \in 1..Len(el.ancestors) : el.ancestors[i].name = "label"}
    IN  IF elem_id # "" /\ labels # {}
        THEN Take(JoinStripped(doc[CHOOSE i \in labels : \A j \in labels : i <= j].strings, ""), 60)
        ELSE IF parents # {}
                /\ Take(el.ancestors[CHOOSE i \in parents : \A j \in parents : i <= j].text, 60)
                     # JoinStripped(el.strings, "")
        THEN Take(el.ancestors[CHOOSE i \in parents : \A j \in parents : i <= j].text, 60)
        ELSE ""

_candidate_priority_value(tag, elem_type) ==
    IF tag = "input" /\ elem_type \in {"text", "email", "password", "search", "tel", "url"}
    THEN 10
    ELSE IF tag = "textarea" THEN 11
    ELSE IF tag = "select" THEN 12
    ELSE IF tag = "input" /\ elem_type = "submit" THEN 15
    ELSE IF tag = "button" THEN 20
    ELSE IF tag = "input" /\ elem_type \in {"checkbox", "radio"} THEN 25
    ELSE IF tag = "a" THEN 30
    ELSE 40

_candidate_priority(c) == IF "_priority" \in DOMAIN c THEN c._priority ELSE 50

AllowedAttributes == {"name", "placeholder", "href", "value", "aria-label", "title"}

\* the first 10 options, those with text, each cut to 40 characters
RECURSIVE OptionTexts(_)
OptionTexts(opts) ==
    IF opts = <<>> THEN <<>>
    ELSE IF Head(opts) = "" THEN OptionTexts(Tail(opts))
    ELSE <<Take(Head(opts), 40)>> \o OptionTexts(Tail(opts))

\* the dedup key f"{tag}:{selector.get('value', '')}:{text[:30]}"
DedupKey(tag, sel, text) == tag \o ":" \o sel.value \o ":" \o Take(text, 30)

\* _extract_candidate(element); None when the element is skipped
_extract_candidate(el, doc) ==
    LET tag == el.name
        own == _get_visible_text(el)
        elem_type == Attr(el, "type")
        sel == _build_selector(el)
        label_text == _get_associated_label(el, doc)
        text == IF label_text # "" /\ own = "" THEN label_text ELSE own
        options == IF tag = "select" THEN OptionTexts(Take(el.options, 10)) ELSE <<>>
        base == [tag |-> tag,
                 text |-> text,
                 type |-> elem_type,
                 selector |-> sel,
                 attributes |-> [a \in {b \in AllowedAttributes : Attr(el, b) # ""}
                                    |-> Take(Attr(el, a), 100)],
                 context |-> _get_parent_context(el.ancestors),
                 _key |-> DedupKey(tag, sel, text),
                 _priority |-> _candidate_priority_value(tag, elem_type)]
    IN  IF tag = "input" /\ elem_type = "hidden" THEN None
        ELSE IF Has(el, "disabled") THEN None
        ELSE IF tag = "option" THEN None
        ELSE IF sel = None THEN None
        ELSE IF options # <<>> THEN base @@ [options |-> options]
        ELSE base

\* tag.decompose() for script, style, noscript, svg and path subtrees
Decomposed(el) ==
    \/ el.name \in StrippedTags
    \/ \E i \in 1..Len(el.ancestors) : el.ancestors[i].name \in StrippedTags

\* the document left after the decompose loop
Soup(doc) == SelectSeq(doc, LAMBDA el : ~Decomposed(el))

Keys(cands) == {cands[i]._key : i \in 1..Len(cands)}

RECURSIVE HarvestPassNoDedup(_, _, _)
RECURSIVE HarvestPass(_, _, _)

\* the body of the loop without the seen_selectors test
HarvestStepNoDedup(c, rest, doc, cands) ==
    IF c # None
    THEN HarvestPassNoDedup(rest, doc, Append(cands, c))
    ELSE HarvestPassNoDedup(rest, doc, cands)

\* the body of a harvesting loop: candidate c is appended when its key is new
HarvestStep(c, rest, doc, cands) ==
    IF c # None /\ c._key \notin Keys(cands)
    THEN HarvestPass(rest, doc, Append(cands, c))
    ELSE HarvestPass(rest, doc, cands)

\* the loop without the seen_selectors test
HarvestPassNoDedup(found, doc, cands) ==
    IF found = <<>> THEN cands
    ELSE HarvestStepNoDedup(_extract_candidate(Head(found), doc), Tail(found), doc, cands)

\* one harvesting loop over the elements found by a pass
HarvestPass(found, doc, cands) ==
    IF found = <<>> THEN cands
    ELSE HarvestStep(_extract_candidate(Head(found), doc), Tail(found), doc, cands)

InteractiveTag(el) == el.name \in _INTERACTIVE_TAGS

ClickableRole(el) == Has(el, "role") /\ Lower(el.attrs["role"]) \in _CLICKABLE_ROLES

HasOnclick(el) == Has(el, "onclick")

\* the candidates list after the three passes, before sorting
Harvest(doc) ==
    LET p1 == HarvestPass(SelectSeq(doc, InteractiveTag), doc, <<>>)
        p2 == HarvestPass(SelectSeq(doc, ClickableRole), doc, p1)
    IN  HarvestPass(SelectSeq(doc, HasOnclick), doc, p2)

\* an unstable sort: an element goes before the elements of equal key
RECURSIVE InsertBeforeEquals(_, _)
InsertBeforeEquals(c, sorted) ==
    IF sorted = <<>> THEN <<c>>
    ELSE IF _candidate_priority(Head(sorted)) < _candidate_priority(c)
         THEN <<Head(sorted)>> \o InsertBeforeEquals(c, Tail(sorted))
         ELSE <<c>> \o sorted

\* list.sort(key=_candidate_priority) is stable: an element goes after every
\* element whose key is not greater
RECURSIVE InsertByPriority(_, _)
InsertByPriority(c, sorted) ==
    IF sorted = <<>> THEN <<c>>
    ELSE IF _candidate_priority(Head(sorted)) <= _candidate_priority(c)
         THEN <<Head(sorted)>> \o InsertByPriority(c, Tail(sorted))
         ELSE <<c>> \o sorted

RECURSIVE SortByPriority(_)
SortByPriority(cands) ==
    IF cands = <<>> THEN <<>>
    ELSE InsertByPriority(cands[Len(cands)], SortByPriority(SubSeq(cands, 1, Len(cands) - 1)))

\* c["id"] = i; c.pop("_key"); c.pop("_priority")
Finalize(c, i) ==
    [k \in (DOMAIN c \ {"_key", "_priority"}) \cup {"id"} |-> IF k = "id" THEN i ELSE c[k]]

\* the slice taken one element too long
TruncateOneMore(cands) ==
    SubSeq(cands, 1, IF Len(cands) < MAX_CANDIDATES + 1 THEN Len(cands) ELSE MAX_CANDIDATES + 1)

\* candidates[:MAX_CANDIDATES]
Truncate(cands) == SubSeq(cands, 1, IF Len(cands) < MAX_CANDIDATES THEN Len(cands) ELSE MAX_CANDIDATES)

AssignIds(cands) == [i \in 1..Len(cands) |-> Finalize(cands[i], i - 1)]

-----------------------------------------------------------------------------
(* llm_client.py: _extract_json.  json.loads is modelled on the texts the  *)
(* decision parser is given here: objects, strings without escapes,        *)
(* integers and the three literals.                                        *)

\* a JSON object as a Python dict: items maps each key to its value
ObjVal(items) == [t |-> "dict", s |-> "", n |-> Cardinality(DOMAIN items), items |-> items]

ParseFail == [ok |-> FALSE, v |-> NullVal, next |-> 0]

ParseOk(v, next) == [ok |-> TRUE, v |-> v, next |-> next]

At(s, i, lit) == SubSeq(s, i, i + Len(lit) - 1) = lit

RECURSIVE SkipWs(_, _)
SkipWs(s, i) == IF i <= Len(s) /\ IsSpace(Char(s, i)) THEN SkipWs(s, i + 1) ELSE i

RECURSIVE FindChar(_, _, _)
FindChar(s, i, c) ==
    IF i > Len(s) THEN 0 ELSE IF Char(s, i) = c THEN i ELSE FindChar(s, i + 1, c)

RECURSIVE DigitRun(_, _)
DigitRun(s, i) == IF i <= Len(s) /\ IsDigit(Char(s, i)) THEN DigitRun(s, i + 1) ELSE i

ParseString(s, i) ==
    IF i <= Len(s) /\ Char(s, i) = "\"" /\ FindChar(s, i + 1, "\"") > 0
    THEN ParseOk(StrVal(SubSeq(s, i + 1, FindChar(s, i + 1, "\"") - 1)),
                 FindChar(s, i + 1, "\"") + 1)
    ELSE ParseFail

ParseNumber(s, i) ==
    LET neg == Char(s, i) = "-"
        d == IF neg THEN i + 1 ELSE i
        e == DigitRun(s, d)
    IN  IF e > d
        THEN ParseOk(IntVal((IF neg THEN 0 - 1 ELSE 1) * DigitsToNat(SubSeq(s, d, e - 1))), e)
        ELSE ParseFail

RECURSIVE ParseValue(_, _)
RECURSIVE ParseMembers(_, _, _)

\* the value starting at position i
ParseValue(s, i) ==
    IF i > Len(s) THEN ParseFail
    ELSE IF Char(s, i) = "{"
    THEN (IF SkipWs(s, i + 1) <= Len(s) /\ Char(s, SkipWs(s, i + 1)) = "}"
          THEN ParseOk(ObjVal(<<>>), SkipWs(s, i + 1) + 1)
          ELSE ParseMembers(s, SkipWs(s, i + 1), <<>>))
    ELSE IF Char(s, i) = "\"" THEN ParseString(s, i)
    ELSE IF Char(s, i) = "-" \/ IsDigit(Char(s, i)) THEN ParseNumber(s, i)
    ELSE IF At(s, i, "true") THEN ParseOk(BoolVal(TRUE), i + 4)
    ELSE IF At(s, i, "false") THEN ParseOk(BoolVal(FALSE), i + 5)
    ELSE IF At(s, i, "null") THEN ParseOk(NullVal, i + 4)
    ELSE ParseFail

\* the members of an object from the key at position i on; a repeated key
\* keeps its last value
ParseMembers(s, i, items) ==
    LET k == ParseString(s, i)
        colon == SkipWs(s, k.next)
        v == ParseValue(s, SkipWs(s, colon + 1))
        after == SkipWs(s, v.next)
        more == (k.v.s :> v.v) @@ items
    IN  IF ~k.ok THEN ParseFail
        ELSE IF colon > Len(s) \/ Char(s, colon) # ":" THEN ParseFail
        ELSE IF ~v.ok THEN ParseFail
        ELSE IF after > Len(s) THEN ParseFail
        ELSE IF Char(s, after) = "," THEN ParseMembers(s, SkipWs(s, after + 1), more)
        ELSE IF Char(s, after) = "}" THEN ParseOk(ObjVal(more), after + 1)
        ELSE ParseFail

\* the value r read from the start of s, when only whitespace follows it
WholeValue(s, r) == IF r.ok /\ SkipWs(s, r.next) = Len(s) + 1 THEN r ELSE ParseFail

\* json.loads(s): ok = FALSE stands for JSONDecodeError
json_loads(s) == WholeValue(s, ParseValue(s, SkipWs(s, 1)))

\* the code fence marker: three backticks in the source, written here with
\* tildes because a TLA+ string cannot hold a backtick
Fence == "~~~"

\* content.split(Fence)
RECURSIVE SplitFences(_, _)
SplitFences(s, from) ==
    LET hits == {i \in from..(Len(s) - 2) : At(s, i, Fence)}
        first == CHOOSE i \in hits : \A j \in hits : i <= j
    IN  IF hits = {} THEN <<SubSeq(s, from, Len(s))>>
        ELSE <<SubSeq(s, from, first - 1)>> \o SplitFences(s, first + 3)

\* the value json.loads gave when it is a dict, else the next strategy's
DictOr(r, otherwise) == IF r.ok /\ IsDict(r.v) THEN r.v ELSE otherwise

\* a stripped block without its "json" tag
Untagged(b0) == IF StartsWith(b0, "json") THEN Strip(Drop(b0, 4)) ELSE b0

\* one round of the loop over the fenced blocks; rest is what the later
\* blocks yield
FencedBlock(block, rest) ==
    IF StartsWith(block, "{") THEN DictOr(json_loads(block), rest) ELSE rest

\* the loop over the fenced blocks; None when no block yields a dict
RECURSIVE FencedBlocks(_)
FencedBlocks(blocks) ==
    IF blocks = <<>> THEN None
    ELSE FencedBlock(Untagged(Strip(Head(blocks))), FencedBlocks(Tail(blocks)))

NotBrace(s, i) == i <= Len(s) /\ Char(s, i) \notin {"{", "}"}

RECURSIVE SkipNonBraces(_, _)
SkipNonBraces(s, i) == IF NotBrace(s, i) THEN SkipNonBraces(s, i + 1) ELSE i

\* the tail [^{}]*(?:\{[^{}]*\}[^{}]*)*\} of the pattern from position i:
\* the position of the closing brace, 0 when the pattern does not match
RECURSIVE BraceTail(_, _)
BraceTail(s, i) ==
    LET j == SkipNonBraces(s, i)
        k == SkipNonBraces(s, j + 1)
    IN  IF j > Len(s) THEN 0
        ELSE IF Char(s, j) = "}" THEN j
        ELSE IF k <= Len(s) /\ Char(s, k) = "}" THEN BraceTail(s, k + 1)
        ELSE 0

\* re.search(r'\{[^{}]*(?:\{[^{}]*\}[^{}]*)*\}', s).group(), "" when no match
BraceSearch(s) ==
    LET starts == {i \in 1..Len(s) : Char(s, i) = "{" /\ BraceTail(s, i + 1) > 0}
        first == CHOOSE i \in starts : \A j \in starts : i <= j
    IN  IF starts = {} THEN "" ELSE SubSeq(s, first, BraceTail(s, first + 1))

\* strategy 3: the first brace-delimited region
BraceRegion(match) == IF match # "" THEN DictOr(json_loads(match), None) ELSE None

\* strategy 2: the fenced blocks, then strategy 3
FencedRegion(text, fenced) ==
    IF fenced # None THEN fenced ELSE BraceRegion(BraceSearch(text))

\* strategy 1: the whole text, then strategies 2 and 3
DirectParse(text) ==
    IF text = "" THEN None
    ELSE DictOr(json_loads(text),
                FencedRegion(text, IF Contains(text, Fence)
                                   THEN FencedBlocks(SplitFences(text, 1))
                                   ELSE None))

\* _extract_json(content); None when every strategy fails
ExtractJson(raw) == DirectParse(Strip(raw))

-----------------------------------------------------------------------------
(* The texts fed to the decision parser                                    *)

\* deepest nesting of the object a text is written around
MaxDepth == 3

JsonKeys == <<"a", "b">>

JsonAtoms == {IntVal(1), StrVal("}")}

\* objects of nesting depth at most d: key a holds an atom or a flat object,
\* key b an atom or an object one level less deep
RECURSIVE JsonObjects(_)
JsonObjects(d) ==
    IF d = 0 THEN {}
    ELSE LET flat == IF d = 1 THEN {} ELSE {ObjVal(<<>>), ObjVal("a" :> IntVal(1))}
         IN  { ObjVal(a @@ b) :
                 a \in Opt("a", JsonAtoms \cup flat),
                 b \in Opt("b", JsonAtoms \cup JsonObjects(d - 1)) }

\* json.dumps(v)
RECURSIVE Dumps(_)
RECURSIVE DumpItems(_, _)
Dumps(v) ==
    CASE v.t = "dict" -> "{" \o DumpItems(v.items, JsonKeys) \o "}"
      [] v.t = "str" -> "\"" \o v.s \o "\""
      [] v.t = "int" -> IntToStr(v.n)
      [] v.t = "bool" -> IF v.n = 1 THEN "true" ELSE "false"
      [] v.t = "null" -> "null"

DumpItems(items, keys) ==
    IF keys = <<>> THEN ""
    ELSE IF Head(keys) \notin DOMAIN items THEN DumpItems(items, Tail(keys))
    ELSE "\"" \o Head(keys) \o "\": " \o Dumps(items[Head(keys)])
         \o (IF \E i \in 2..Len(keys) : keys[i] \in DOMAIN items THEN ", " ELSE "")
         \o DumpItems(items, Tail(keys))

\* the ways the reasoning service wraps its object
Wrappings == {"plain", "padded", "fenced", "fenced-json", "prose-fenced", "prose", "prose-around"}

Wrap(w, json) ==
    CASE w = "plain" -> json
      [] w = "padded" -> "\n " \o json \o " \n"
      [] w = "fenced" -> Fence \o "\n" \o json \o "\n" \o Fence
      [] w = "fenced-json" -> Fence \o "json\n" \o json \o "\n" \o Fence
      [] w = "prose-fenced" -> "I will click.\n" \o Fence \o "json\n" \o json \o "\n" \o Fence
      [] w = "prose" -> "Answer: " \o json
      [] w = "prose-around" -> "Sure, " \o json \o " is my choice."

\* texts without any JSON object
PlainTexts == {"", "  ", "I am not sure.", "42", "\"click\"", "{oops}", Fence \o "json\nclick\n" \o Fence}

InitJson ==
    /\ pc = "text"
    /\ \/ \E o \in JsonObjects(MaxDepth) : \E w \in Wrappings :
             content = Wrap(w, Dumps(o)) /\ embedded = o
       \/ content \in PlainTexts /\ embedded = None
    /\ extracted = None
    /\ IdleNorm
    /\ IdleHtml
    /\ IdleLlm
    /\ IdleAct

\* parsed = _extract_json(content)
_extract_json ==
    /\ pc = "text"
    /\ extracted' = ExtractJson(content)
    /\ pc' = "json"
    /\ UNCHANGED <<content, embedded, normVars, htmlVars, llmVars, actVars>>

NextJson == _extract_json

SpecJson == InitJson /\ [][NextJson]_vars

-----------------------------------------------------------------------------
(* The snapshots fed to the extractor                                      *)

\* largest number of elements in a snapshot built element by element
MaxElements == 3

\* largest number of distinct elements in a generated long snapshot
MaxBulk == 42

El(name, attrs, strings) ==
    [name |-> name, attrs |-> attrs, strings |-> strings, ancestors |-> <<>>, options |-> <<>>]

Within(el, ancestors) == [el EXCEPT !.ancestors = ancestors]

Anc(name, role, text) == [name |-> name, role |-> role, text |-> text]

RECURSIVE Rep(_, _)
Rep(c, n) == IF n = 0 THEN "" ELSE c \o Rep(c, n - 1)

ElementSamples ==
    { El("input", ("id" :> "email") @@ ("type" :> "text"), <<>>),
      El("label", ("for" :> "email"), <<" Email ">>),
      El("button", ("id" :> "login"), <<"Log", " in">>),
      El("input", ("type" :> "hidden") @@ ("name" :> "csrf"), <<>>),
      El("button", ("disabled" :> "") @@ ("id" :> "off"), <<"Off">>),
      El("option", ("value" :> "1"), <<"One">>),
      El("a", ("href" :> "/p"), <<"Go">>),
      El("a", ("href" :> "/p"), <<Rep("a", 30) \o "b">>),
      El("a", ("href" :> "/p"), <<Rep("a", 30) \o "c">>),
      El("a", ("data-testid" :> "x:y"), <<"z">>),
      El("a", ("data-testid" :> "x"), <<"y:z">>),
      El("a", ("data-testid" :> " "), <<"Blank">>),
      El("a", ("href" :> "javascript:void(0)"), <<>>),
      Within(El("a", ("href" :> "/icon"), <<"I">>), <<Anc("svg", "", "I")>>),
      El("div", ("role" :> "Button") @@ ("onclick" :> "f()"), <<"Div">>),
      El("div", ("role" :> "banner"), <<"Top">>),
      El("div", ("onclick" :> "g()"), <<>>),
      El("span", ("onclick" :> "h()") @@ ("title" :> "Sp"), <<" ">>),
      El("button", ("role" :> "button") @@ ("onclick" :> "k()") @@ ("aria-label" :> "Close"), <<>>),
      [El("select", ("name" :> "color"), <<"Red", "Blue">>) EXCEPT !.options = <<"Red", "", "Blue">>],
      Within(El("textarea", ("name" :> "msg"), <<>>),
             <<Anc("label", "", "Message"), Anc("div", "form", "Message")>>),
      El("input", ("type" :> "checkbox") @@ ("id" :> "c"), <<>>),
      El("input", ("type" :> "submit") @@ ("value" :> "Send"), <<>>),
      Within(El("input", ("type" :> "submit") @@ ("name" :> "go"), <<>>), <<Anc("form", "", "")>>) }

\* one element with every combination of selector sources missing, blank
\* or usable
SelectorProbes ==
    { El(tag, a1 @@ a2 @@ a3 @@ a4, strings) :
        tag \in {"a", "button"},
        a1 \in Opt("id", {" ", "x "}),
        a2 \in Opt("data-testid", {" ", "t"}),
        a3 \in Opt("name", {" ", "n"}),
        a4 \in Opt("href", {" ", "javascript:void(0)", "/p"}),
        strings \in {<<>>, <<" Go ">>} }

\* the i-th element of a long snapshot: links, buttons, text inputs and
\* clickable blocks in turn, each with its own id
BulkElement(i) ==
    LET id == "id" :> ("e" \o NatToStr(i))
    IN  CASE i % 4 = 0 -> El("a", id @@ ("href" :> "/p"), <<"Link">>)
          [] i % 4 = 1 -> El("button", id @@ ("role" :> "button"), <<"Press">>)
          [] i % 4 = 2 -> El("input", id @@ ("type" :> "text"), <<>>)
          [] i % 4 = 3 -> El("div", id @@ ("onclick" :> "f()"), <<"Block">>)

\* n distinct elements followed by copies of the first d of them
BulkDoc(n, d) == [i \in 1..(n + d) |-> BulkElement(IF i <= n THEN i ELSE i - n)]

BulkDocs == {BulkDoc(n, d) : n \in (MAX_CANDIDATES - 2)..MaxBulk, d \in {0, 3}}

InitHtml ==
    /\ \/ pc = "build" /\ html = <<>>
       \/ pc = "ready" /\ html \in {<<e>> : e \in SelectorProbes} \cup BulkDocs
    /\ harvest = <<>>
    /\ parsed = <<>>
    /\ IdleNorm
    /\ IdleJson
    /\ IdleLlm
    /\ IdleAct

\* the snapshot holds one more element
SnapshotElement(e) ==
    /\ pc = "build"
    /\ Len(html) < MaxElements
    /\ html' = Append(html, e)
    /\ UNCHANGED <<pc, harvest, parsed, normVars, jsonVars, llmVars, actVars>>

\* candidates = parse_html(snapshot_html); a blank snapshot has no elements
parse_html ==
    /\ pc \in {"build", "ready"}
    /\ harvest' = Harvest(Soup(html))
    /\ parsed' = AssignIds(Truncate(SortByPriority(harvest')))
    /\ pc' = "parsed"
    /\ UNCHANGED <<html, normVars, jsonVars, llmVars, actVars>>

NextHtml ==
    \/ \E e \in ElementSamples : SnapshotElement(e)
    \/ parse_html

SpecHtml == InitHtml /\ [][NextHtml]_vars

-----------------------------------------------------------------------------
(* The decision mappings fed to the normaliser                             *)

\* largest number of keys in a decision
MaxFields == 4

\* length of the candidate list handed to the normaliser
NumCandidates == 2

DecisionKeys ==
    {"action", "type", "candidate_id", "selector", "text", "option", "value",
     "url", "direction", "seconds", "time", "time_seconds"}

FieldValues(k) ==
    CASE k = "action" ->
            {StrVal("click"), StrVal("ClickAction"), StrVal("frobnicate"),
             StrVal(" Action "), StrVal(""), NullVal, StrVal("hover"),
             StrVal("select"), StrVal("scroll"), StrVal("ScrollUpAction"), StrVal("scrolldown"),
             StrVal("wait"), StrVal("o"), StrVal("typewait"), StrVal("navigate")}
      [] k = "type" -> {StrVal("submit"), StrVal("done")}
      [] k = "candidate_id" ->
            {IntVal(0), IntVal(NumCandidates), IntVal(0 - 1), StrVal("1"),
             StrVal("x"), BoolVal(TRUE), FloatVal(10), NullVal}
      [] k = "selector" -> {DictVal("{'attribute': 'id', 'value': 'x'}", 2), StrVal("#x")}
      [] k = "text" -> {StrVal(""), StrVal("hello")}
      [] k = "option" -> {StrVal("Red")}
      [] k = "value" -> {StrVal("Blue")}
      [] k = "url" -> {StrVal("http://x")}
      [] k = "direction" -> {StrVal("UP"), StrVal("down"), StrVal("left"), NullVal}
      [] k = "seconds" ->
            {IntVal(0 - 5), StrVal("abc"), StrVal("2.5"), NullVal, BigIntVal}
      [] k = "time" -> {IntVal(3)}
      [] k = "time_seconds" -> {FloatVal(5)}

\* candidates as parse_html returns them: ids 0..n-1, each with a selector
SampleCandidates(n) ==
    [i \in 1..n |->
        [id |-> i - 1,
         selector |-> make_selector("attributeValueSelector", "id",
                                    "el" \o NatToStr(i - 1), FALSE)]]

InitNorm ==
    /\ pc = "emit"
    /\ decision = <<>>
    /\ candidates = SampleCandidates(NumCandidates)
    /\ normalized = ""
    /\ intent = "None"
    /\ selector = None
    /\ result = None
    /\ raised = ""
    /\ IdleHtml
    /\ IdleJson
    /\ IdleLlm
    /\ IdleAct

\* the reasoning service puts one more field into the decision
DecisionField(k, v) ==
    /\ pc = "emit"
    /\ k \notin DOMAIN decision
    /\ Cardinality(DOMAIN decision) < MaxFields
    /\ decision' = decision @@ (k :> v)
    /\ UNCHANGED <<pc, candidates, normalized, intent, selector, result, raised, htmlVars, jsonVars,
                   llmVars, actVars>>

\* action = build_action_from_llm(decision, candidates)
build_action_from_llm ==
    /\ pc = "emit"
    /\ \E o \in {BuildOutcome(decision, candidates)} :
           /\ normalized' = o.normalized
           /\ intent' = o.intent
           /\ selector' = o.selector
           /\ result' = o.result
           /\ raised' = o.raised
    /\ pc' = "done"
    /\ UNCHANGED <<decision, candidates, htmlVars, jsonVars, llmVars, actVars>>

NextNorm ==
    \/ \E k \in DecisionKeys : \E v \in FieldValues(k) : DecisionField(k, v)
    \/ build_action_from_llm

SpecNorm == InitNorm /\ [][NextNorm]_vars

-----------------------------------------------------------------------------
(* llm_client.py: chat_completion and _do_request.  One exchange with the  *)
(* gateway is a record: status is the HTTP status, 0 when client.post      *)
(* raised httpx.RequestError; kind says what resp.json() holds on a 2xx    *)
(* response; content is choices[0].message.content.                        *)

Exchange(status, kind, text) == [status |-> status, kind |-> kind, content |-> text]

RequestError == Exchange(0, "", NullVal)

StatusOnly(status) == Exchange(status, "", NullVal)

\* the test of a transient failure widened to every error status
IsTransientOrClient(r) == r.status = 0 \/ r.status >= 400

\* except httpx.RequestError, and resp.status_code >= 500: _TransientError
IsTransient(r) == r.status = 0 \/ r.status >= 500

\* resp.raise_for_status() returns normally: a 2xx status
IsSuccess(r) == 200 <= r.status /\ r.status <= 299

\* stop_after_attempt(2)
StopAttempt == 2

\* the stop condition met one attempt late
ShouldStopOneLate(attempt_number) == attempt_number >= StopAttempt + 1

\* stop_after_attempt: no retry once attempt_number reaches the limit
ShouldStop(attempt_number) == attempt_number >= StopAttempt

\* the keys chat_completion puts into body
BodyKeys(rf) ==
    {"model", "messages", "temperature", "max_tokens"}
        \cup (IF Truthy(rf) THEN {"response_format"} ELSE {})

\* resp.json() and the lines after _do_request returns: the mapping
\* chat_completion returns, or the exception these lines raise
Respond(r) ==
    CASE r.kind = "not_json" -> [completion |-> None, error |-> "JSONDecodeError"]
      [] r.kind = "array" -> [completion |-> None, error |-> "AttributeError"]
      [] r.kind = "empty_choices" -> [completion |-> None, error |-> "IndexError"]
      [] r.kind = "no_choices" -> [completion |-> [content |-> StrVal("")], error |-> ""]
      [] r.kind = "completion" -> [completion |-> [content |-> r.content], error |-> ""]

\* the position and locals of chat_completion after one post got r
AfterPost(r) ==
    LET here == [pc |-> "request", body |-> body, phase |-> phase, attempt |-> attempt,
                 completion |-> None, error |-> ""]
    IN  IF IsTransient(r)
        THEN (IF ShouldStop(attempt)
              THEN [here EXCEPT !.pc = "failed", !.error = "_TransientError"]
              ELSE [here EXCEPT !.attempt = attempt + 1])
        ELSE IF ~IsSuccess(r)
        THEN (IF phase = 1 /\ Truthy(response_format) /\ r.status = 400
              THEN [here EXCEPT !.body = body \ {"response_format"}, !.phase = 2, !.attempt = 1]
              ELSE [here EXCEPT !.pc = "failed", !.error = "HTTPStatusError"])
        ELSE IF Respond(r).error # ""
        THEN [here EXCEPT !.pc = "failed", !.error = Respond(r).error]
        ELSE [here EXCEPT !.pc = "returned", !.completion = Respond(r).completion]

\* response_format={"type": "json_object"}, what get_action_decision passes
JsonObjectFormat == ObjVal("type" :> StrVal("json_object"))

\* the values a caller passes as response_format
ResponseFormats == {NullVal, ObjVal(<<>>), JsonObjectFormat}

\* the texts the reasoning service answers with
DecisionTexts ==
    { "{\"action\": \"click\", \"candidate_id\": 0}",
      "{\"action\": \"frobnicate\", \"candidate_id\": \"1\"}",
      "{\"action\": \"frobnicate\", \"candidate_id\": \"x\"}",
      "{\"action\": \"frobnicate\", \"candidate_id\": true}",
      "{\"action\": \"select\", \"candidate_id\": 0}",
      "{\"action\": \"type\", \"candidate_id\": 7, \"text\": \"hi\"}",
      "{\"action\": \"hover\", \"candidate_id\": -1}",
      "{\"candidate_id\": 0}",
      "{\"action\": \"scroll\", \"direction\": null}",
      "{\"action\": \"scroll\", \"direction\": \"up\"}",
      "{\"action\": \"wait\", \"seconds\": -5}",
      "{\"action\": \"click\", \"selector\": {\"attribute\": \"id\", \"value\": \"x\"}}",
      Fence \o "json\n{\"action\": \"done\"}\n" \o Fence,
      "{}",
      "I am not sure.",
      "  " }

\* the texts a completion carries here besides those
OtherTexts == {"", "{}", "I am not sure.", " {\"action\": \"done\"} "}

\* the contents get_action_decision hands to _extract_json here, stripped
StrippedTexts == {Strip(t) : t \in DecisionTexts \cup OtherTexts}

\* parsed = _extract_json(content), for each of these contents
ExtractTable == [text \in StrippedTexts |-> ExtractJson(text)]

\* result.get("content", "").strip() raises: the content is no string
ContentRaises == error = "" /\ ~IsStr(completion.content)

\* content after the strip ("" when chat_completion raised)
StrippedContent == IF error # "" THEN "" ELSE Strip(completion.content.s)

\* the exchanges the gateway can answer a post with
Exchanges ==
    {RequestError}
        \cup {StatusOnly(st) : st \in {301, 400, 404, 429, 500, 503}}
        \cup {Exchange(200, k, NullVal) : k \in {"not_json", "array", "empty_choices", "no_choices"}}
        \cup {Exchange(200, "completion", c) :
                 c \in {NullVal} \cup {StrVal(t) : t \in OtherTexts}}

InitLlm ==
    /\ pc = "call"
    /\ response_format \in ResponseFormats
    /\ body = {}
    /\ phase = 0
    /\ attempt = 0
    /\ sent = <<>>
    /\ completion = None
    /\ error = ""
    /\ IdleNorm
    /\ IdleHtml
    /\ IdleJson
    /\ IdleAct

\* chat_completion up to its first call of _do_request: headers, body, url
chat_completion ==
    /\ pc = "call"
    /\ body' = BodyKeys(response_format)
    /\ phase' = 1
    /\ attempt' = 1
    /\ pc' = "request"
    /\ UNCHANGED <<response_format, sent, completion, error, normVars, htmlVars, jsonVars, actVars>>

\* one attempt of _do_request: client.post is answered by r; then the retry
\* decorator, the except clauses of chat_completion and its last lines run
_do_request(r) ==
    /\ pc = "request"
    /\ sent' = Append(sent, [body |-> body, phase |-> phase, attempt |-> attempt,
                             response |-> r])
    /\ body' = AfterPost(r).body
    /\ phase' = AfterPost(r).phase
    /\ attempt' = AfterPost(r).attempt
    /\ completion' = AfterPost(r).completion
    /\ error' = AfterPost(r).error
    /\ pc' = AfterPost(r).pc
    /\ UNCHANGED <<response_format, normVars, htmlVars, jsonVars, actVars>>

\* get_action_decision once its chat_completion call has ended: the except
\* clause, the strip of the content and _extract_json; a failed call, an
\* empty content and an unparsed content give the empty decision
get_action_decision ==
    /\ pc \in {"returned", "failed"}
    /\ response_format = JsonObjectFormat
    /\ IF ContentRaises
       THEN /\ pc' = "decision_raised"
            /\ UNCHANGED <<decision, content, extracted>>
       ELSE /\ content' = StrippedContent
            /\ extracted' = ExtractTable[StrippedContent]
            /\ decision' = IF extracted' = None THEN <<>> ELSE extracted'.items
            /\ pc' = "decided"
    /\ UNCHANGED <<candidates, normalized, intent, selector, result, raised, embedded,
                   htmlVars, llmVars, actVars>>

NextLlm ==
    \/ chat_completion
    \/ \E r \in Exchanges : _do_request(r)
    \/ get_action_decision

SpecLlm == InitLlm /\ [][NextLlm]_vars

\* every post is answered or times out (timeout=_TIMEOUT) and the wait
\* between attempts is at most 3 seconds, so a call that was made builds
\* its request and a pending request is answered
SpecLlmFair ==
    /\ SpecLlm
    /\ WF_vars(chat_completion)
    /\ WF_vars(\E r \in Exchanges : _do_request(r))

-----------------------------------------------------------------------------
(* agent.py: act and _decide_action.  The call is followed from the parsed *)
(* payload (act, lines 52-65) to the mapping act returns.                  *)

\* the exception build_user_prompt raises on one history entry, "" if none:
\* h.get on an entry that is no mapping, or desc += ... on a type that is
\* no string
EntryException(h) ==
    IF ~IsDict(h) THEN "AttributeError"
    ELSE LET action_type == Get(h.items, "type", Get(h.items, "action", StrVal("unknown")))
             text == Get(h.items, "text", StrVal(""))
             url_val == Get(h.items, "url", StrVal(""))
         IN  IF (Truthy(text) \/ Truthy(url_val)) /\ ~IsStr(action_type)
             THEN "TypeError"
             ELSE ""

\* the exception raised while the messages are built, "" if none
RECURSIVE PromptException(_)
PromptException(h) ==
    IF h = <<>> THEN ""
    ELSE IF EntryException(Head(h)) # "" THEN EntryException(Head(h))
    ELSE PromptException(Tail(h))

\* cid = decision.get("candidate_id") after the str -> int conversion of
\* _decide_action (None on ValueError)
FallbackCandidateId(d) ==
    LET cid == Get(d, "candidate_id", NullVal)
    IN  IF IsStr(cid)
        THEN (IF IntOfStr(cid.s).ok THEN IntOfStr(cid.s).v ELSE NullVal)
        ELSE cid

\* the fallback that forgets the scroll
FallbackClickOnly(d, cands) ==
    IF CandidateBound(FallbackCandidateId(d), cands)
    THEN click_action(cands[FallbackCandidateId(d).n + 1].selector)
    ELSE None

\* the fallback of _decide_action when build_action_from_llm gave none
Fallback(d, cands) ==
    IF CandidateBound(FallbackCandidateId(d), cands)
    THEN click_action(cands[FallbackCandidateId(d).n + 1].selector)
    ELSE scroll_action(TRUE)

\* the snapshots of the /act calls followed here
ActSnapshots ==
    { <<>>,
      <<El("a", ("href" :> "/p"), <<"Go">>)>>,
      <<El("button", ("id" :> "login"), <<"Log", " in">>),
        El("input", ("id" :> "email") @@ ("type" :> "text"), <<>>)>> }

\* candidates = parse_html(snapshot_html), for each of these snapshots
ParsedTable ==
    [h \in ActSnapshots |-> AssignIds(Truncate(SortByPriority(Harvest(Soup(h)))))]

\* the decisions _extract_json gives for the contents followed here
Decisions == {e.items : e \in {ExtractTable[t] : t \in StrippedTexts} \ {None}}

\* action = build_action_from_llm(decision, candidates), for each of these
\* decisions and candidate lists
OutcomeTable ==
    [d \in Decisions, c \in {ParsedTable[h] : h \in ActSnapshots} |-> BuildOutcome(d, c)]

\* the histories of the /act calls followed here
Histories ==
    { <<>>,
      <<ObjVal(("type" :> StrVal("ClickAction")) @@ ("text" :> StrVal("x")))>>,
      <<StrVal("clicked")>>,
      <<ObjVal(("type" :> IntVal(5)) @@ ("text" :> StrVal("x")))>> }

\* the exchanges the gateway answers a post of an /act call with
ActExchanges ==
    {RequestError, StatusOnly(400), StatusOnly(404), StatusOnly(503),
     Exchange(200, "empty_choices", NullVal), Exchange(200, "completion", NullVal)}
        \cup {Exchange(200, "completion", StrVal(t)) : t \in DecisionTexts}

InitAct ==
    /\ pc = "ready"
    /\ html \in ActSnapshots
    /\ harvest = <<>>
    /\ parsed = <<>>
    /\ history \in Histories
    /\ excepted = ""
    /\ actions = <<>>
    /\ IdleNorm
    /\ IdleJson
    /\ IdleLlm

\* _decide_action from the page summary to the call of get_action_decision,
\* which calls chat_completion with response_format={"type": "json_object"};
\* an exception goes to the except clause of act
build_user_prompt ==
    /\ pc = "parsed"
    /\ IF PromptException(history) # ""
       THEN /\ excepted' = PromptException(history)
            /\ actions' = <<scroll_action(TRUE)>>
            /\ pc' = "responded"
            /\ UNCHANGED response_format
       ELSE /\ response_format' = JsonObjectFormat
            /\ pc' = "call"
            /\ UNCHANGED <<excepted, actions>>
    /\ UNCHANGED <<body, phase, attempt, sent, completion, error, history,
                   normVars, htmlVars, jsonVars>>

\* _decide_action from the decision on, and act to its return: the empty
\* decision, build_action_from_llm, the fallback, the except clause
act ==
    /\ pc \in {"decided", "decision_raised"}
    /\ IF pc = "decision_raised"
       THEN /\ excepted' = "AttributeError"
            /\ actions' = <<scroll_action(TRUE)>>
            /\ UNCHANGED <<candidates, normalized, intent, selector, result, raised>>
       ELSE IF DOMAIN decision = {}
       THEN /\ actions' = <<scroll_action(TRUE)>>
            /\ UNCHANGED <<excepted, candidates, normalized, intent, selector, result, raised>>
       ELSE /\ candidates' = parsed
            /\ \E o \in {OutcomeTable[decision, parsed]} :
                  /\ normalized' = o.normalized
                  /\ intent' = o.intent
                  /\ selector' = o.selector
                  /\ result' = o.result
                  /\ raised' = o.raised
            /\ excepted' = raised'
            /\ actions' = << IF raised' # "" THEN scroll_action(TRUE)
                             ELSE IF result' = None THEN Fallback(decision, parsed)
                             ELSE result' >>
    /\ pc' = "responded"
    /\ UNCHANGED <<decision, history, htmlVars, jsonVars, llmVars>>

NextAct ==
    \/ parse_html
    \/ build_user_prompt
    \/ chat_completion
    \/ \E r \in ActExchanges : _do_request(r)
    \/ get_action_decision
    \/ act

SpecAct == InitAct /\ [][NextAct]_vars

\* parse_html, build_user_prompt, get_action_decision and the rest of act
\* are synchronous code between awaits, every post is answered or times
\* out, and the event loop resumes the coroutine: a pending step is taken
SpecActFair == SpecAct /\ WF_vars(NextAct)

-----------------------------------------------------------------------------
(* Properties of build_action_from_llm                                     *)

SelectorIntents == {"click", "type", "select", "submit", "hover"}

\* a candidate_id that is missing, out of range or not a number: a str that
\* int() rejects or converts out of range, or a value that is neither an
\* integer nor a str
BadCandidateId(d, cands) ==
    \/ "candidate_id" \notin DOMAIN d
    \/ LET v == d["candidate_id"]
       IN  \/ v.t = "int" /\ (v.n < 0 \/ v.n >= Len(cands))
           \/ v.t = "bigint"
           \/ v.t = "str" /\ ~IntOfStr(v.s).ok
           \/ v.t = "str" /\ IntOfStr(v.s).ok
                /\ (IntOfStr(v.s).v.n < 0 \/ IntOfStr(v.s).v.n >= Len(cands))
           \/ v.t \notin {"int", "bigint", "str"}

UnboundCandidateId(d, cands) ==
    \/ "candidate_id" \notin DOMAIN d
    \/ LET v == d["candidate_id"]
       IN  \/ v.t \in {"int", "bool"} /\ (v.n < 0 \/ v.n >= Len(cands))
           \/ v.t = "bigint"
           \/ v.t = "str" /\ ~IntOfStr(v.s).ok
           \/ v.t = "str" /\ IntOfStr(v.s).ok
                /\ (IntOfStr(v.s).v.n < 0 \/ IntOfStr(v.s).v.n >= Len(cands))
           \/ v.t \notin {"int", "bool", "bigint", "str"}

InlineSelector(d) == "selector" \in DOMAIN d /\ IsDict(d["selector"])

C6_NeverRaises == raised = ""

\* C7: a decision whose intent is wait yields a wait action, never none,
\* with seconds a number >= 0, and 1.0 when the seconds field does not parse
C7_WaitSecondsNonNegative ==
    (pc = "done" /\ intent = "wait") =>
        /\ raised = ""
        /\ result.type = "WaitAction"
        /\ result.time_seconds.t = "float"
        /\ result.time_seconds.s = ""
        /\ result.time_seconds.n >= 0
        /\ (FloatOf(WaitSeconds(decision)).exc # "" => result.time_seconds = FloatVal(10))

AliasKeys == {_ACTION_ALIASES[i][1] : i \in 1..Len(_ACTION_ALIASES)}

\* alias i contains the identifier or is contained in it
Related(name, i) ==
    \/ Contains(_ACTION_ALIASES[i][1], name)
    \/ Contains(name, _ACTION_ALIASES[i][1])

\* C8: an identifier that is a key of the alias table resolves to that key's
\* canonical value; otherwise to the canonical value of the first entry, in
\* insertion order, related to it by containment; with no related entry the
\* action is unknown and the result is none
C8_AliasResolution ==
    (pc = "done" /\ Truthy(RawAction(decision))) =>
        LET hits == {i \in 1..Len(_ACTION_ALIASES) : Related(normalized, i)}
        IN  /\ normalized = _normalize_action_name(PyStr(RawAction(decision)))
            /\ normalized \in AliasKeys =>
                 \E i \in 1..Len(_ACTION_ALIASES) :
                    _ACTION_ALIASES[i][1] = normalized /\ intent = _ACTION_ALIASES[i][2]
            /\ (normalized \notin AliasKeys /\ hits # {}) =>
                 \E i \in hits : (\A j \in hits : i <= j) /\ intent = _ACTION_ALIASES[i][2]
            /\ (normalized \notin AliasKeys /\ hits = {}) =>
                 intent = "None" /\ result = None /\ raised = ""

\* an identifier related to several entries with different canonical values
\* resolved, and an identifier related to none reported as unknown
C8_Witness ==
    /\ pc = "done"
    /\ normalized = "o"
    /\ intent = "select"
    /\ Cardinality({_ACTION_ALIASES[i][2] :
                      i \in {j \in 1..Len(_ACTION_ALIASES) : Related("o", j)}}) > 1

\* a field supplies an identifier when it holds a non-empty str that the
\* alias table recognises
Recognised(d, k) ==
    /\ k \in DOMAIN d
    /\ IsStr(d[k])
    /\ d[k].s # ""
    /\ ResolveAlias(_normalize_action_name(d[k].s)) # "None"

\* C9: the identifier is read from either field, action or type: when one of
\* them holds a non-empty recognised identifier the intent is resolved from
\* it, so an empty or null action does not hide a valid type
C9_EitherIdentifierField ==
    pc = "done" =>
        /\ Recognised(decision, "action") =>
             intent = ResolveAlias(_normalize_action_name(decision["action"].s))
        /\ (~Recognised(decision, "action") /\ Recognised(decision, "type")) =>
             intent = ResolveAlias(_normalize_action_name(decision["type"].s))

OptionFields == <<"text", "option", "value">>

NonEmptyOption(d, i) == OptionFields[i] \in DOMAIN d /\ Truthy(d[OptionFields[i]])

\* C10: select with a bound selector returns a select action carrying the
\* first non-empty of text, option, value, and none only when all three are
\* missing or empty
C10_SelectAnyOptionField ==
    (pc = "done" /\ intent = "select" /\ selector # None) =>
        /\ (\E i \in 1..3 : NonEmptyOption(decision, i)) =>
             /\ result.type = "SelectDropDownOptionAction"
             /\ \E i \in 1..3 :
                  /\ NonEmptyOption(decision, i)
                  /\ \A j \in 1..(i - 1) : ~NonEmptyOption(decision, j)
                  /\ result.text = PyStr(decision[OptionFields[i]])
        /\ (\A i \in 1..3 : ~NonEmptyOption(decision, i)) => result = None

-----------------------------------------------------------------------------
(* Properties of parse_html                                                *)

Rank(c) == _candidate_priority_value(c.tag, c.type)

\* C1: the returned list has at most MAX_CANDIDATES candidates and their
\* ids, in list order, are 0, 1, ..., len-1, assigned after the list was
\* sorted by rank and truncated
C1_BoundedContiguousIds ==
    pc = "parsed" =>
        /\ Len(parsed) <= MAX_CANDIDATES
        /\ \A i \in 1..Len(parsed) : parsed[i].id = i - 1
        /\ Len(parsed) = (IF Len(harvest) < MAX_CANDIDATES THEN Len(harvest) ELSE MAX_CANDIDATES)
        /\ \A i \in 1..Len(parsed) : \A j \in i..Len(parsed) : Rank(parsed[i]) <= Rank(parsed[j])

\* more candidates were harvested than fit, and the list was cut
C1_Witness ==
    /\ pc = "parsed"
    /\ Len(harvest) > MAX_CANDIDATES
    /\ Len(parsed) = MAX_CANDIDATES
    /\ parsed[MAX_CANDIDATES].id = MAX_CANDIDATES - 1

\* the dedup key as its three parts
Triple(c) == <<c.tag, c.selector.value, Take(c.text, 30)>>

\* a candidate without its id and its internal fields
Public(c) == [k \in DOMAIN c \ {"id", "_key", "_priority"} |-> c[k]]

\* every extraction of the three passes, in harvest order, duplicates included
Extracted(doc) ==
    LET found == SelectSeq(doc, InteractiveTag) \o SelectSeq(doc, ClickableRole)
                 \o SelectSeq(doc, HasOnclick)
        all == [i \in 1..Len(found) |-> _extract_candidate(found[i], doc)]
    IN  SelectSeq(all, LAMBDA c : c # None)

\* C2: no two returned candidates share the dedup key (tag, selector value,
\* first 30 characters of the text); a returned candidate is the first
\* harvested occurrence of its key over the three passes, and the first
\* occurrence of every key is the one the harvest keeps
C2_DedupFirstWins ==
    pc = "parsed" =>
        LET ex == Extracted(Soup(html))
        IN  /\ \A i \in 1..Len(parsed) : \A j \in 1..Len(parsed) :
                  i # j => Triple(parsed[i]) # Triple(parsed[j])
            /\ \A i \in 1..Len(parsed) : \E k \in 1..Len(ex) :
                  /\ Public(ex[k]) = Public(parsed[i])
                  /\ \A m \in 1..(k - 1) : Triple(ex[m]) # Triple(parsed[i])
            /\ \A k \in 1..Len(ex) :
                  (\A m \in 1..(k - 1) : ex[m]._key # ex[k]._key) =>
                      \E i \in 1..Len(harvest) : harvest[i] = ex[k]
            /\ Len(harvest) = Cardinality({ex[k]._key : k \in 1..Len(ex)})

\* two different extractions had the same key and the earlier one was returned
C2_Witness ==
    /\ pc = "parsed"
    /\ LET ex == Extracted(Soup(html))
       IN  \E k \in 1..Len(ex) : \E m \in (k + 1)..Len(ex) :
              /\ ex[k]._key = ex[m]._key
              /\ Public(ex[k]) # Public(ex[m])
              /\ \E i \in 1..Len(parsed) : Public(parsed[i]) = Public(ex[k])
              /\ \A i \in 1..Len(parsed) : Public(parsed[i]) # Public(ex[m])

\* C3: no selector has an empty value: _build_selector returns a selector
\* with a non-empty value or none, and every returned candidate carries a
\* selector with a non-empty value
C3_SelectorValueNonEmpty ==
    pc = "parsed" =>
        /\ \A i \in 1..Len(html) :
              _build_selector(html[i]) = None \/ _build_selector(html[i]).value # ""
        /\ \A i \in 1..Len(parsed) : parsed[i].selector.value # ""

-----------------------------------------------------------------------------
(* Properties of _extract_json                                             *)

\* C4: from a text holding one well-formed JSON object, whole, fenced or
\* inside prose, _extract_json returns a mapping equal to that object,
\* whatever the object's nesting depth
C4_RecoversEmbeddedObject ==
    (pc = "json" /\ embedded # None) => extracted = embedded

-----------------------------------------------------------------------------
(* Properties of chat_completion                                           *)

ClientClass(r) == 400 <= r.status /\ r.status <= 499

ServerClass(r) == r.status = 0 \/ r.status >= 500

\* chat_completion has ended by raising e to its caller
Surfaced(e) == pc # "request" /\ error = e /\ completion = None

\* C11 as stated: a request is followed by another one only when it met a
\* transient or server-class failure, and a client-class response (any 4xx,
\* 400 included) is the last exchange of the call, its failure raised to
\* the caller.
C11_NoRequestAfterClientError ==
    /\ \A i \in 1..(Len(sent) - 1) : ServerClass(sent[i].response)
    /\ \A i \in 1..Len(sent) :
          ClientClass(sent[i].response) => i = Len(sent) /\ Surfaced("HTTPStatusError")

\* the 400 answer to a request carrying response_format, after which the
\* body loses response_format for every later request
FormatRefused(i) ==
    /\ sent[i].response.status = 400
    /\ "response_format" \in sent[i].body
    /\ \A j \in (i + 1)..Len(sent) : "response_format" \notin sent[j].body
    /\ "response_format" \notin body

\* C11 amended: a request is followed by another one only when it met a
\* transient or server-class failure or was a request carrying
\* response_format answered by 400, later requests then carrying no
\* response_format; every other client-class response is the last exchange
\* of the call, its failure raised to the caller.
C11_RetryOnlyTransientOrFormatRefused ==
    /\ \A i \in 1..(Len(sent) - 1) : ServerClass(sent[i].response) \/ FormatRefused(i)
    /\ \A i \in 1..Len(sent) :
          ClientClass(sent[i].response) =>
              \/ i = Len(sent) /\ Surfaced("HTTPStatusError")
              \/ FormatRefused(i) /\ (i = Len(sent) => pc = "request")

\* a refused format, a retried server failure in the second phase, then a
\* 400 that ends the call
C11_Witness ==
    /\ Len(sent) = 3
    /\ FormatRefused(1)
    /\ sent[2].response.status = 503
    /\ sent[3].response.status = 400
    /\ Surfaced("HTTPStatusError")

-----------------------------------------------------------------------------
(* Properties of the candidate order                                       *)

FreeTextTypes == {"text", "email", "password", "search", "tel", "url"}

\* the rank classes of the fixed order, 1 the highest
RankClass(c) ==
    CASE c.tag = "input" /\ c.type \in FreeTextTypes -> 1
      [] c.tag = "textarea" -> 2
      [] c.tag = "select" -> 3
      [] c.tag = "input" /\ c.type = "submit" -> 4
      [] c.tag = "button" -> 5
      [] c.tag = "input" /\ c.type \in {"checkbox", "radio"} -> 6
      [] c.tag = "a" -> 7
      [] OTHER -> 8

\* where candidate c is first met going through pass a, then b, then c,
\* each in document order
FirstAt(c, ex) ==
    CHOOSE k \in 1..Len(ex) :
        Public(ex[k]) = Public(c) /\ \A m \in 1..(k - 1) : Public(ex[m]) # Public(c)

\* c comes before d: a higher rank class, or the same and harvested earlier
Before(c, d, ex) ==
    \/ RankClass(c) < RankClass(d)
    \/ RankClass(c) = RankClass(d) /\ FirstAt(c, ex) < FirstAt(d, ex)

\* C12: along the returned list the rank classes are non-decreasing in the
\* fixed order and candidates of equal rank are in harvest order (pass a,
\* then b, then c, document order within a pass); a candidate that the
\* truncation dropped comes, in that order, after every candidate kept.
C12_PriorityOrderStable ==
    pc = "parsed" =>
        LET ex == Extracted(Soup(html))
        IN  /\ \A i \in 1..Len(parsed) : \A j \in (i + 1)..Len(parsed) :
                  Before(parsed[i], parsed[j], ex)
            /\ \A h \in 1..Len(harvest) :
                  (\A i \in 1..Len(parsed) : Public(parsed[i]) # Public(harvest[h])) =>
                      \A i \in 1..Len(parsed) : Before(parsed[i], harvest[h], ex)

\* the sort moved a candidate ahead of one harvested earlier, kept two
\* candidates of one rank, and the list was cut
C12_Witness ==
    /\ pc = "parsed"
    /\ Len(harvest) > Len(parsed)
    /\ \E i \in 1..Len(harvest) : \E j \in (i + 1)..Len(harvest) :
          RankClass(harvest[j]) < RankClass(harvest[i])
    /\ \E i \in 1..Len(parsed) : \E j \in (i + 1)..Len(parsed) :
          RankClass(parsed[i]) = RankClass(parsed[j])

-----------------------------------------------------------------------------
(* Properties of _build_selector                                           *)

NonBlank(el, a) == Has(el, a) /\ Strip(el.attrs[a]) # ""

\* the highest-priority source an element offers, "none" when it has none
BestSource(el) ==
    IF NonBlank(el, "id") THEN "id"
    ELSE IF NonBlank(el, "data-testid") THEN "data-testid"
    ELSE IF NonBlank(el, "name") THEN "name"
    ELSE IF el.name = "a" /\ NonBlank(el, "href")
            /\ ~StartsWith(Strip(el.attrs["href"]), "javascript:")
    THEN "href"
    ELSE IF _get_visible_text(el) # "" THEN "text"
    ELSE "none"

\* C13: for every element of a parsed snapshot the selector built for it
\* names the highest-priority source among id, data-testid, name, href (of
\* a link, not a javascript: target) and visible text that is present with
\* a non-blank value, and no selector is built exactly when the element
\* offers no source.
C13_SelectorSourcePriority ==
    pc = "parsed" =>
        \A i \in 1..Len(html) :
            IF BestSource(html[i]) = "none"
            THEN _build_selector(html[i]) = None
            ELSE /\ _build_selector(html[i]) # None
                 /\ _build_selector(html[i]).attribute = BestSource(html[i])

-----------------------------------------------------------------------------
(* Properties of the scroll branch                                         *)

ScrollIntents == {"scroll", "scroll_down", "scroll_up"}

\* the explicit direction field, case-folded, is "up"
DirectionUp(d) ==
    "direction" \in DOMAIN d /\ IsStr(d["direction"]) /\ Lower(d["direction"].s) = "up"

\* C14: a decision whose intent is scroll, scroll_down or scroll_up yields a
\* scroll action with left = right = false and exactly one of up and down
\* true: up exactly when the intent is scroll_up or the direction field
\* case-folded is "up", down in every other case, a missing or unrecognised
\* direction included.
C14_ScrollDirection ==
    (pc = "done" /\ intent \in ScrollIntents) =>
        /\ raised = ""
        /\ result # None
        /\ result.type = "ScrollAction"
        /\ result.left = FALSE
        /\ result.right = FALSE
        /\ result.up = (intent = "scroll_up" \/ DirectionUp(decision))
        /\ result.down = ~result.up

-----------------------------------------------------------------------------
(* Properties of an identifier that normalizes to nothing                  *)

\* the raw identifier is non-empty and its normalized form is empty
EmptyIdentifier(d) ==
    Truthy(RawAction(d)) /\ _normalize_action_name(PyStr(RawAction(d))) = ""

\* C17: a non-empty action identifier that normalizes to the empty string
\* is not unknown: the intent is click, and a click action is returned on
\* the bound selector, or on the inline selector mapping when no selector
\* is bound.
C17_EmptyIdentifierIsClick ==
    (pc = "done" /\ EmptyIdentifier(decision)) =>
        /\ normalized = ""
        /\ intent = "click"
        /\ raised = ""
        /\ (selector # None => result = click_action(selector))
        /\ ((selector = None /\ InlineSelector(decision)) =>
                result = click_action(decision["selector"]))

\* the identifier " Action " with a bound candidate gave a click on it
C17_Witness ==
    /\ pc = "done"
    /\ "action" \in DOMAIN decision
    /\ decision["action"] = StrVal(" Action ")
    /\ normalized = ""
    /\ selector = candidates[1].selector
    /\ result = click_action(candidates[1].selector)

-----------------------------------------------------------------------------
(* Properties of the number of requests                                    *)

\* the requests sent by the first (p = 1) or second (p = 2) call of
\* _do_request
InPhase(p) == {i \in 1..Len(sent) : sent[i].phase = p}

\* chat_completion has returned or raised
Ended == pc \notin {"call", "request"}

RequestsBounded ==
    /\ Cardinality(InPhase(1)) <= 2
    /\ Cardinality(InPhase(2)) <= 2
    /\ Len(sent) <= 4
    /\ InPhase(1) \cup InPhase(2) = 1..Len(sent)
    /\ \A i \in InPhase(2) :
          /\ i - 1 \in InPhase(1) \cup InPhase(2)
          /\ \A j \in InPhase(1) : j < i
          /\ \E j \in InPhase(1) :
                /\ \A k \in InPhase(1) : k <= j
                /\ sent[j].response.status = 400
                /\ "response_format" \in sent[j].body
    /\ Ended => (completion # None) # (error # "")
    /\ (pc = "decided" /\ error # "") => DOMAIN decision = {}

\* C16: a call of chat_completion sends at most 2 requests in each call of
\* _do_request and at most 4 in all; the second call of _do_request happens
\* at most once and only after a 400 answer to a request that carried
\* response_format; the call ends, with a parsed response or with an error
\* raised to the caller, and get_action_decision turns the error into an
\* empty decision.
C16_BoundedRequestsThenEnd == []RequestsBounded /\ <>Ended

\* four requests were sent, the last one failed and the decision is empty
C16_Witness ==
    /\ Len(sent) = 4
    /\ Cardinality(InPhase(2)) = 2
    /\ pc = "decided"
    /\ error = "_TransientError"
    /\ DOMAIN decision = {}

-----------------------------------------------------------------------------
(* Properties of act                                                       *)

ScrollDown ==
    [type |-> "ScrollAction", down |-> TRUE, up |-> FALSE, left |-> FALSE,
     right |-> FALSE]

\* the integer the decision's candidate_id stands for: a Python int as it
\* is, a numeric string converted; -1 when there is none
ReferencedId(d) ==
    IF "candidate_id" \notin DOMAIN d THEN 0 - 1
    ELSE IF d["candidate_id"].t \in {"int", "bool"} THEN d["candidate_id"].n
    ELSE IF d["candidate_id"].t = "str" /\ IntOfStr(d["candidate_id"].s).ok
         THEN IntOfStr(d["candidate_id"].s).v.n
    ELSE 0 - 1

ReferencedInRange == 0 <= ReferencedId(decision) /\ ReferencedId(decision) < Len(parsed)

\* act has returned
Responded == pc = "responded"

ReturnsOneAction ==
    Responded =>
        /\ Len(actions) = 1
        /\ actions[1] # None
        /\ (excepted # "" \/ DOMAIN decision = {}) => actions[1] = ScrollDown
        /\ (excepted = "" /\ DOMAIN decision # {} /\ result = None) =>
              actions[1] = IF ReferencedInRange
                           THEN [type |-> "ClickAction",
                                 selector |-> parsed[ReferencedId(decision) + 1].selector]
                           ELSE ScrollDown
        /\ (excepted = "" /\ result # None) => actions[1] = result

====
